---------------------------- MODULE Spec2Model ----------------------------
(***************************************************************************)
(* A model of the HiAnime scraping pipeline (src/hianimez_scraper.py with  *)
(* src/config.py): the host resolver, the rendered page fetcher, the       *)
(* episode list post-processing and the stream/subtitle extractor with     *)
(* its bounded-retry HTTP fetch.                                           *)
(*                                                                         *)
(* Each component has its own specification over the shared variables:     *)
(*   SpecFetch    _get_with_retries and extract_episode_stream_and_subtitle*)
(*   SpecHost     _pick_live_base and _base_of                             *)
(*   SpecRender   _rendered_html and the two rendering coroutines          *)
(*   SpecEpisodes the deduplication and sort of get_episodes_list          *)
(* The variables of the components a specification does not run stay at    *)
(* their idle values.                                                      *)
(*                                                                         *)
(* Python strings the code inspects character by character (URLs, episode  *)
(* numbers) are sequences of one-character strings.                        *)
(***************************************************************************)
EXTENDS Integers, Sequences, FiniteSets, TLC

VARIABLES
    \* ---- _get_with_retries / extract_episode_stream_and_subtitle
    RETRIES,        \* config.RETRIES, read from the environment at import
    fpc,            \* position: "idle", "loop", "fetched", "done"
    attempt,        \* iterations of the for loop completed
    last,           \* the local `last`: None or the exception caught last
    reqLog,         \* outcome of every session.get issued, in order
    fetchResult,    \* how _get_with_retries ended (None while running)
    extractResult,  \* how extract_episode_stream_and_subtitle ended
    \* ---- _pick_live_base / _base_of
    world,          \* what a GET of each pool host does during this call
    hcall,          \* the function called: "_pick_live_base" or "_base_of"
    hurl,           \* the argument of _base_of
    hpc,            \* position: "idle", "start", "probing", "done"
    hidx,           \* index of the pool entry the for loop is at
    probed,         \* indices of the pool entries a GET was sent to, in order
    hresult,        \* how the call ended (None while running)
    \* ---- _rendered_html / _fetch_rendered_html / _fetch_episodes_html
    rfn,            \* the coroutine running
    rpc,            \* position in the coroutine ("idle": no call yet)
    rcalls,         \* calls begun so far
    driver,         \* the Playwright driver of the call: "down" or "up"
    browser,        \* the browser of the call: "none", "open" or "closed"
    loopState,      \* _rendered_html's event loop: "none", "open" or "closed"
    selIdx,         \* index of the selector the wait loop is at
    waitLog,        \* the waits performed after navigation and how each ended
    rhtml,          \* the coroutine's local `html` (None until read)
    rresult,        \* how the call ended (None while running)
    \* ---- get_episodes_list
    episodes,       \* the (number, url) pairs the anchor loop collected
    epc,            \* position: "idle", "collected", "done"
    epResult,       \* the list returned
    soup,           \* the parsed page: its containers and anchors in document order
    pbase,          \* the local `base`
    candidates,     \* the local `candidates`
    aidx,           \* index of the anchor the for loop is at
    lpc,            \* position of the whole call: "idle", "start", "base", "render", "done"
    lurl,           \* the argument anime_url
    rurl,           \* the url _rendered_html was called with
    lresult,        \* how get_episodes_list ended (None while running)
    \* ---- bot.py: episode_callback, one run per handler thread
    bpc,            \* position of each handler
    bnum,           \* each handler's ep_num
    bsub,           \* each handler's subtitle_url
    bfile,          \* each handler's local_vtt (None until the download returned)
    bopened,        \* what each handler's open() gave: -1 not opened, 0 no
                    \* such file, k the content handler k downloaded
    cache           \* subtitles_cache: per path, 0 (no file) or the handler
                    \* whose download the file holds

fetchVars == <<RETRIES, fpc, attempt, last, reqLog, fetchResult, extractResult>>
hostVars == <<world, hcall, hurl, hpc, hidx, probed, hresult>>

renderVars == <<rfn, rpc, rcalls, driver, browser, loopState, selIdx, waitLog, rhtml, rresult>>

episodeVars == <<episodes, epc, epResult>>

parseVars == <<soup, pbase, candidates, aidx>>

listVars == <<lpc, lurl, rurl, lresult>>

botVars == <<bpc, bnum, bsub, bfile, bopened, cache>>

vars == <<fetchVars, hostVars, renderVars, episodeVars, parseVars, listVars, botVars>>

\* the variables each component leaves alone
notFetch == <<hostVars, renderVars, episodeVars, parseVars, listVars, botVars>>
notHost == <<fetchVars, renderVars, episodeVars, parseVars, listVars, botVars>>
notRender == <<fetchVars, hostVars, episodeVars, parseVars, listVars, botVars>>
notEpisodes == <<fetchVars, hostVars, renderVars, parseVars, listVars, botVars>>
notParse == <<fetchVars, hostVars, renderVars, listVars, botVars>>

\* None where the code holds a string, and where it holds an object
None == "None"
NoneObj == [kind |-> "None"]

\* no call of the host resolver is running
IdleHost ==
    /\ world = <<>>
    /\ hcall = "none"
    /\ hurl = <<>>
    /\ hpc = "idle"
    /\ hidx = 0
    /\ probed = <<>>
    /\ hresult = NoneObj

\* no rendered fetch has been called
IdleRender ==
    /\ rfn = "none"
    /\ rpc = "idle"
    /\ rcalls = 0
    /\ driver = "down"
    /\ browser = "none"
    /\ loopState = "none"
    /\ selIdx = 0
    /\ waitLog = <<>>
    /\ rhtml = None
    /\ rresult = NoneObj

\* get_episodes_list has not been called
IdleEpisodes ==
    /\ episodes = <<>>
    /\ epc = "idle"
    /\ epResult = <<>>

\* no page is being parsed
IdleParse ==
    /\ soup = <<>>
    /\ pbase = <<>>
    /\ candidates = <<>>
    /\ aidx = 0

\* get_episodes_list as a whole has not been called
IdleList ==
    /\ lpc = "idle"
    /\ lurl = <<>>
    /\ rurl = <<>>
    /\ lresult = NoneObj

(***************************************************************************)
(* Bounds of the model.                                                    *)
(***************************************************************************)
\* most episode_callback handlers running at once (the webhook serves each
\* POST in a thread of its own)
MaxHandlers == 2
Handlers == 1..MaxHandlers

\* the episode numbers of the callback data
CallbackNums == {"1", "2"}

\* the subtitle urls extract_episode_stream_and_subtitle returns
CallbackSubs == {"https://cdn/en.vtt", "https://cdn/eng.srt"}

\* the extension of a subtitle url
ExtOf(url) == IF url = "https://cdn/en.vtt" THEN "vtt" ELSE "srt"

\* download_and_rename_subtitle's file name: from the episode number and the
\* url's extension, in cache_dir
SubtitlePath(url, ep_num, cache_dir) == [dir |-> cache_dir, num |-> ep_num, ext |-> ExtOf(url)]

\* the paths in subtitles_cache
CachePaths == {SubtitlePath(u, n, "subtitles_cache") : u \in CallbackSubs, n \in CallbackNums}

\* no callback has arrived and subtitles_cache is empty
IdleBot ==
    /\ bpc = [h \in Handlers |-> "idle"]
    /\ bnum = [h \in Handlers |-> None]
    /\ bsub = [h \in Handlers |-> None]
    /\ bfile = [h \in Handlers |-> NoneObj]
    /\ bopened = [h \in Handlers |-> -1]
    /\ cache = [p \in CachePaths |-> 0]

\* most rendered fetches in one run
MaxCalls == 2
\* most anchors get_episodes_list collects a pair from
MaxAnchors == 3
\* most nodes (containers and anchors) of a parsed page
MaxNodes == 3
\* largest HTTP_RETRIES value the environment sets (the default is 2)
MaxRetries == 2
\* most player-configuration entries on one episode page
MaxEntries == 2

RECURSIVE SeqsUpTo(_, _)
\* all sequences over S of length at most n
SeqsUpTo(S, n) ==
    IF n = 0 THEN {<<>>}
    ELSE LET shorter == SeqsUpTo(S, n - 1)
         IN  shorter \cup {Append(s, x) : s \in {t \in shorter : Len(t) = n - 1}, x \in S}

(***************************************************************************)
(* config.py: RETRIES = int(os.getenv("HTTP_RETRIES", "2")).               *)
(***************************************************************************)
RetriesEnv == 0..MaxRetries

(***************************************************************************)
(* Episode pages.  The extractor searches the raw text for object-like     *)
(* fragments  "<field>" : "<value>" , "<key>" : "<url>"  ; a page is the   *)
(* sequence of such fragments in text order.  ext is the extension the url *)
(* ends with, right before its closing quote.                              *)
(***************************************************************************)
EntryPool ==
    { [field |-> "label",   value |-> "HD-2",    key |-> "file", url |-> "https://cdn/x.m3u8",  ext |-> "m3u8"],
      [field |-> "label",   value |-> "HD-1",    key |-> "file", url |-> "https://cdn/y.m3u8",  ext |-> "m3u8"],
      [field |-> "label",   value |-> "hd-2",    key |-> "url",  url |-> "https://cdn/z.M3U8",  ext |-> "M3U8"],
      [field |-> "srclang", value |-> "en",      key |-> "file", url |-> "https://cdn/en.vtt",  ext |-> "vtt"],
      [field |-> "srclang", value |-> "es",      key |-> "file", url |-> "https://cdn/es.vtt",  ext |-> "vtt"],
      [field |-> "lang",    value |-> "English", key |-> "url",  url |-> "https://cdn/eng.srt", ext |-> "srt"],
      [field |-> "label",   value |-> "HD-2",    key |-> "file", url |-> "https://cdn/x.mp4",   ext |-> "mp4"],
      [field |-> "lang",    value |-> "English (US)", key |-> "src", url |-> "https://cdn/us.vtt", ext |-> "vtt"],
      [field |-> "lang",    value |-> "Spanish", key |-> "url",  url |-> "https://cdn/spa.srt", ext |-> "srt"] }

PagePool == SeqsUpTo(EntryPool, MaxEntries)

\* str.lower() on the tokens of the pages (re.I compares case-insensitively)
Lower(s) ==
    CASE s = "HD-2"    -> "hd-2"
      [] s = "HD-1"    -> "hd-1"
      [] s = "M3U8"    -> "m3u8"
      [] s = "English" -> "english"
      [] s = "English (US)" -> "english (us)"
      [] s = "Spanish" -> "spanish"
      [] OTHER         -> s

\* the lower-cased language names of the pages that start with "english"
EnglishNames == {"english", "english (us)"}

\* a mutant of HlsPattern: the label is not compared
HlsPatternAnyLabel(e) ==
    /\ Lower(e.field) = "label"
    /\ Lower(e.key) \in {"file", "url"}
    /\ Lower(e.ext) = "m3u8"

\* r'"label"\s*:\s*"HD-2"\s*,\s*"(?:file|url)"\s*:\s*"([^"]+\.m3u8)"', re.I
HlsPattern(e) ==
    /\ Lower(e.field) = "label"
    /\ Lower(e.value) = "hd-2"
    /\ Lower(e.key) \in {"file", "url"}
    /\ Lower(e.ext) = "m3u8"

\* r'"srclang"\s*:\s*"en"\s*,\s*"(?:file|url|src)"\s*:\s*"([^"]+\.(?:vtt|srt))"', re.I
SubCodePattern(e) ==
    /\ Lower(e.field) = "srclang"
    /\ Lower(e.value) = "en"
    /\ Lower(e.key) \in {"file", "url", "src"}
    /\ Lower(e.ext) \in {"vtt", "srt"}

\* r'"lang"\s*:\s*"English[^"]*"\s*,\s*"(?:file|url|src)"\s*:\s*"([^"]+\.(?:vtt|srt))"', re.I
SubNamePattern(e) ==
    /\ Lower(e.field) = "lang"
    /\ Lower(e.value) \in EnglishNames
    /\ Lower(e.key) \in {"file", "url", "src"}
    /\ Lower(e.ext) \in {"vtt", "srt"}

\* whether a fragment matches one of the three patterns of the extractor
PatternMatches(pattern, e) ==
    CASE pattern = "label"   -> HlsPattern(e)
      [] pattern = "srclang" -> SubCodePattern(e)
      [] pattern = "lang"    -> SubNamePattern(e)

\* re.search(pattern, html, re.I): the leftmost match, or None
ReSearch(pattern, html) ==
    LET hits == {i \in 1..Len(html) : PatternMatches(pattern, html[i])}
    IN  IF hits = {} THEN NoneObj
        ELSE html[CHOOSE i \in hits : \A j \in hits : i <= j]

\* a mutant of GroupOrNone: m.group(1) with no test of m
GroupUnguarded(m) == IF m = NoneObj THEN "AttributeError" ELSE m.url

\* m.group(1) if m else None
GroupOrNone(m) == IF m = NoneObj THEN None ELSE m.url

\* a mutant of SubSearch: one search for either pattern, the leftmost wins
SubSearchLeftmost(html) ==
    LET hits == {i \in 1..Len(html) : SubCodePattern(html[i]) \/ SubNamePattern(html[i])}
    IN  IF hits = {} THEN NoneObj
        ELSE html[CHOOSE i \in hits : \A j \in hits : i <= j]

\* m_sub = re.search(code pattern) or re.search(name pattern)
SubSearch(html) ==
    LET byCode == ReSearch("srclang", html)
    IN  IF byCode # NoneObj THEN byCode ELSE ReSearch("lang", html)

(***************************************************************************)
(* _get_with_retries(session, url)                                         *)
(***************************************************************************)
Statuses == {200, 404, 500, 503}

\* what one session.get(url, timeout=HTTP_TIMEOUT) does: a response with a
\* status and a text, or an exception of the transport.  The text of an
\* error response is never read and is left empty.
GetOutcomes ==
    [kind : {"response"}, status : {200}, text : PagePool]
        \cup [kind : {"response"}, status : Statuses \ {200}, text : {<<>>}]
        \cup [kind : {"exception"}, status : {0}, text : {<<>>}]

\* r.status_code >= 500
IsServerError(status) == status >= 500

\* a mutant of RaiseForStatus: the range of raising statuses starts too low
RaiseForStatusFrom200(status) == 200 <= status /\ status < 600

\* a mutant of RaiseForStatus: a client error does not raise
RaiseForStatusOnly5xx(status) == 500 <= status /\ status < 600

\* r.raise_for_status(): HTTPError for a 4xx or 5xx status
RaiseForStatus(status) == 400 <= status /\ status < 600

\* one iteration of `for _ in range(RETRIES + 1)`
GetAttempt ==
    /\ fpc = "loop"
    /\ attempt < RETRIES + 1
    /\ \E o \in GetOutcomes :
        /\ reqLog' = Append(reqLog, o)
        /\ IF o.kind = "exception"
           THEN \* except Exception as e: last = e; time.sleep(0.4)
                /\ last' = [type |-> "ConnectionError", at |-> attempt + 1]
                /\ attempt' = attempt + 1
                /\ UNCHANGED <<fpc, fetchResult>>
           ELSE IF IsServerError(o.status)
           THEN \* time.sleep(0.6); continue
                /\ attempt' = attempt + 1
                /\ UNCHANGED <<fpc, last, fetchResult>>
           ELSE IF RaiseForStatus(o.status)
           THEN \* raise_for_status raises inside the try
                /\ last' = [type |-> "HTTPError", at |-> attempt + 1]
                /\ attempt' = attempt + 1
                /\ UNCHANGED <<fpc, fetchResult>>
           ELSE \* return r.text
                /\ fetchResult' = [kind |-> "return", text |-> o.text]
                /\ fpc' = "fetched"
                /\ UNCHANGED <<attempt, last>>
    /\ UNCHANGED <<RETRIES, extractResult>>
    /\ UNCHANGED notFetch

\* `raise last` after the loop; raising None is a TypeError.  The caller
\* extract_episode_stream_and_subtitle has no handler: it ends with the same.
GetExhausted ==
    /\ fpc = "loop"
    /\ attempt = RETRIES + 1
    /\ fetchResult' = [kind |-> "raise",
                       exc |-> IF last = NoneObj
                               THEN [type |-> "TypeError", at |-> 0]
                               ELSE last]
    /\ extractResult' = fetchResult'
    /\ fpc' = "done"
    /\ UNCHANGED <<RETRIES, attempt, last, reqLog>>
    /\ UNCHANGED notFetch

\* extract_episode_stream_and_subtitle after html = _get_with_retries(...)
ExtractParse ==
    /\ fpc = "fetched"
    /\ LET html    == fetchResult.text
           hls_url == GroupOrNone(ReSearch("label", html))
           sub_url == GroupOrNone(SubSearch(html))
       IN  \* (m.group(1) of a failed search would raise AttributeError; the
           \* `if m` guards of lines 191 and 199 keep that from happening)
           extractResult' =
             IF "AttributeError" \in {hls_url, sub_url}
             THEN [kind |-> "raise", exc |-> [type |-> "AttributeError", at |-> 0]]
             ELSE [kind |-> "return", hls |-> hls_url, sub |-> sub_url]
    /\ fpc' = "done"
    /\ UNCHANGED <<RETRIES, attempt, last, reqLog, fetchResult>>
    /\ UNCHANGED notFetch

\* no call of the extractor is running
IdleFetch ==
    /\ RETRIES = 2
    /\ fpc = "idle"
    /\ attempt = 0
    /\ last = NoneObj
    /\ reqLog = <<>>
    /\ fetchResult = NoneObj
    /\ extractResult = NoneObj

InitFetch ==
    /\ IdleBot
    /\ IdleParse
    /\ IdleList
    /\ IdleHost
    /\ IdleRender
    /\ IdleEpisodes
    /\ RETRIES \in RetriesEnv
    /\ fpc = "loop"
    /\ attempt = 0
    /\ last = NoneObj
    /\ reqLog = <<>>
    /\ fetchResult = NoneObj
    /\ extractResult = NoneObj

NextFetch == GetAttempt \/ GetExhausted \/ ExtractParse

SpecFetch == InitFetch /\ [][NextFetch]_vars

\* the interpreter keeps running a call that can take a step
SpecFetchLive == SpecFetch /\ WF_vars(NextFetch)

(***************************************************************************)
(* Claims about _get_with_retries and extract_episode_stream_and_subtitle. *)
(***************************************************************************)
\* an attempt that succeeded: a response whose status is no error status
SuccessfulAttempt(o) == o.kind = "response" /\ o.status < 400

\* an attempt that left an exception behind: session.get raised, or the
\* response was a 4xx
RaisingAttempt(o) ==
    o.kind = "exception" \/ (o.kind = "response" /\ 400 <= o.status /\ o.status < 500)

FetchErrorTypes == {"ConnectionError", "HTTPError"}

\* C1: when none of the RETRIES+1 attempts succeeds, _get_with_retries ends
\* by raising an underlying fetch error of one of its attempts, the last one
\* any attempt left behind (never anything that is not a fetch error).
C1_ExhaustedRaisesLastFetchError ==
    (fpc = "done" /\ \A k \in 1..Len(reqLog) : ~SuccessfulAttempt(reqLog[k]))
        => /\ Len(reqLog) = RETRIES + 1
           /\ fetchResult.kind = "raise"
           /\ fetchResult.exc.type \in FetchErrorTypes
           /\ fetchResult.exc.at \in 1..Len(reqLog)
           /\ \A k \in 1..Len(reqLog) :
                 RaisingAttempt(reqLog[k]) => k <= fetchResult.exc.at

\* C2: a successful attempt ends the call: it is the last request issued,
\* its text is what the call returns, and the call does not raise.
C2_FirstSuccessReturned ==
    \A k \in 1..Len(reqLog) :
        SuccessfulAttempt(reqLog[k])
            => /\ k = Len(reqLog)
               /\ k <= RETRIES + 1
               /\ fetchResult = [kind |-> "return", text |-> reqLog[k].text]

\* a 503 and then a success: the second attempt's text is returned
C2_Witness ==
    /\ fpc = "done"
    /\ Len(reqLog) = 2
    /\ reqLog[1].kind = "response" /\ reqLog[1].status = 503
    /\ SuccessfulAttempt(reqLog[2])
    /\ reqLog[2].text # <<>>
    /\ fetchResult.kind = "return"

\* C8: extract_episode_stream_and_subtitle raises exactly when the fetch
\* raised; after a fetched body it returns a pair whose stream is absent
\* exactly when no fragment matches the stream pattern and whose subtitle is
\* absent exactly when no fragment matches a subtitle pattern.
C8_ExtractRaisesOnlyOnFetchFailure ==
    fpc = "done"
        => /\ (extractResult.kind = "raise") <=> (fetchResult.kind = "raise")
           /\ fetchResult.kind = "return"
                => LET html == fetchResult.text
                   IN  /\ extractResult.kind = "return"
                       /\ (extractResult.hls = None)
                            <=> ~\E i \in 1..Len(html) : HlsPattern(html[i])
                       /\ (extractResult.sub = None)
                            <=> ~\E i \in 1..Len(html) :
                                   SubCodePattern(html[i]) \/ SubNamePattern(html[i])

\* a fetched page with a subtitle fragment and no HD-2 fragment
C8_Witness ==
    /\ fpc = "done"
    /\ fetchResult.kind = "return"
    /\ extractResult.kind = "return"
    /\ extractResult.hls = None
    /\ extractResult.sub # None

\* the fragments of a page a pattern matches, by position
Hits(html, kinds) ==
    {i \in 1..Len(html) :
        \/ "code" \in kinds /\ html[i].field = "srclang" /\ html[i].value = "en"
                             /\ html[i].ext \in {"vtt", "srt"}
        \/ "name" \in kinds /\ html[i].field = "lang"
                             /\ html[i].value \in {"English", "English (US)"}
                             /\ html[i].ext \in {"vtt", "srt"}
        \/ "hd2"  \in kinds /\ html[i].field = "label" /\ html[i].value \in {"HD-2", "hd-2"}
                             /\ html[i].key \in {"file", "url"}
                             /\ html[i].ext \in {"m3u8", "M3U8"}}

Min(S) == CHOOSE i \in S : \A j \in S : i <= j

\* C11: the subtitle returned is the url of the first fragment matching the
\* language-code pattern when there is one, wherever the language-name
\* fragments are; the first language-name fragment's url only when no
\* fragment matches the code pattern; absent when neither matches.
C11_SubtitleCodeBeforeName ==
    (fpc = "done" /\ fetchResult.kind = "return")
        => LET html == fetchResult.text
               code == Hits(html, {"code"})
               name == Hits(html, {"name"})
           IN  extractResult.sub =
                 IF code # {} THEN html[Min(code)].url
                 ELSE IF name # {} THEN html[Min(name)].url
                 ELSE None

\* an "English" fragment first, an "en" fragment second: the second is taken
C11_Witness ==
    /\ fpc = "done"
    /\ fetchResult.kind = "return"
    /\ Len(fetchResult.text) = 2
    /\ fetchResult.text[1].field = "lang" /\ fetchResult.text[1].value = "English"
    /\ fetchResult.text[2].field = "srclang" /\ fetchResult.text[2].value = "en"
    /\ extractResult.sub = fetchResult.text[2].url

\* C12: the stream returned is the playlist url of the first fragment whose
\* label is HD-2 and whose file or url is a playlist; the url of a fragment
\* with another label is never returned.
C12_StreamIsFirstHD2Playlist ==
    (fpc = "done" /\ fetchResult.kind = "return")
        => LET html == fetchResult.text
               hd2  == Hits(html, {"hd2"})
           IN  /\ extractResult.hls = IF hd2 = {} THEN None ELSE html[Min(hd2)].url
               /\ \A i \in 1..Len(html) :
                     html[i].url = extractResult.hls => html[i].value \in {"HD-2", "hd-2"}

\* an HD-1 playlist first, the HD-2 playlist second: the second is returned
C12_Witness ==
    /\ fpc = "done"
    /\ fetchResult.kind = "return"
    /\ Len(fetchResult.text) = 2
    /\ fetchResult.text[1].value = "HD-1" /\ fetchResult.text[1].ext = "m3u8"
    /\ fetchResult.text[2].value = "HD-2"
    /\ extractResult.hls = "https://cdn/x.m3u8"

\* C13: _get_with_retries ends; it never issues more than RETRIES+1 GETs and
\* issues exactly RETRIES+1 when no attempt succeeds; a 4xx response is a
\* failed attempt (another attempt or the final raise follows), never the
\* body returned.
C13_BoundedAttemptsAndTermination ==
    /\ [](/\ Len(reqLog) <= RETRIES + 1
          /\ (fetchResult.kind = "raise") => Len(reqLog) = RETRIES + 1
          /\ (fetchResult # NoneObj /\ \A k \in 1..Len(reqLog) : ~SuccessfulAttempt(reqLog[k]))
                => Len(reqLog) = RETRIES + 1 /\ fetchResult.kind = "raise"
          /\ \A k \in 1..Len(reqLog) :
                (reqLog[k].kind = "response" /\ reqLog[k].status \in 400..499)
                    => /\ fetchResult.kind # "return" \/ k < Len(reqLog)
                       /\ k < Len(reqLog) \/ attempt = k)
    /\ <>(fpc = "done")

\* three GETs with RETRIES = 2, a 404 among them, and the call has raised
C13_Witness ==
    /\ fpc = "done"
    /\ RETRIES = 2
    /\ Len(reqLog) = 3
    /\ reqLog[2].kind = "response" /\ reqLog[2].status = 404
    /\ fetchResult.kind = "raise"

(***************************************************************************)
(* Host resolver: _pick_live_base and _base_of.                            *)
(***************************************************************************)
\* config.HIANIME_DOMAIN_POOL
HIANIME_DOMAIN_POOL ==
    << <<"h", "t", "t", "p", "s", ":", "/", "/", "h", "i", "a", "n", "i", "m", "e", "z", ".", "i", "s">>,
       <<"h", "t", "t", "p", "s", ":", "/", "/", "h", "i", "a", "n", "i", "m", "e", "z", ".", "t", "o">>,
       <<"h", "t", "t", "p", "s", ":", "/", "/", "h", "i", "a", "n", "i", "m", "e", ".", "i", "s">>,
       <<"h", "t", "t", "p", "s", ":", "/", "/", "h", "i", "a", "n", "i", "m", "e", ".", "b", "z">>,
       <<"h", "t", "t", "p", "s", ":", "/", "/", "h", "i", "a", "n", "i", "m", "e", "z", ".", "b", "z">> >>

\* the arguments _base_of is called with
UrlInputs ==
    { <<"h", "t", "t", "p", "s", ":", "/", "/", "h", ".", "e", "x", "a", "m", "p", "l", "e", "/", "x">>,   \* "https://h.example/x"
      <<"H", "T", "T", "P", "S", ":", "/", "/", "h", ".", "e", "x", "a", "m", "p", "l", "e", "/", "x">>,   \* "HTTPS://h.example/x"
      <<"h", "t", "t", "p", "s", ":", "/", "/", "h", ".", "e", "x", "a", "m", "p", "l", "e">>,   \* "https://h.example"
      <<"/", "w", "a", "t", "c", "h", "/", "1">>,   \* "/watch/1"
      <<"w", "a", "t", "c", "h", "/", "1">>,   \* "watch/1"
      <<"/", "/", "h", ".", "e", "x", "a", "m", "p", "l", "e", "/", "x">>,   \* "//h.example/x"
      <<"h", "t", "t", "p", "s", ":", "/", "x">>,   \* "https:/x"
      <<"h", "t", "t", "p", "s", ":", "/", "/", "/", "x">>,   \* "https:///x"
      <<"h", "t", "t", "p", ":", "/", "/", "[", "h", "/", "x">>,   \* "http://[h/x"
      <<>>,   \* ""
      <<"x", "/", "y", ":", "1">>,   \* "x/y:1"
      <<"1", "x", ":", "/", "/", "h", "/", "y">> }   \* "1x://h/y"

AsciiLower ==
    <<"a", "b", "c", "d", "e", "f", "g", "h", "i", "j", "k", "l", "m",
      "n", "o", "p", "q", "r", "s", "t", "u", "v", "w", "x", "y", "z">>
AsciiUpper ==
    <<"A", "B", "C", "D", "E", "F", "G", "H", "I", "J", "K", "L", "M",
      "N", "O", "P", "Q", "R", "S", "T", "U", "V", "W", "X", "Y", "Z">>
AsciiDigits == <<"0", "1", "2", "3", "4", "5", "6", "7", "8", "9">>

Range(f) == {f[i] : i \in DOMAIN f}

\* c.isascii() and c.isalpha()
IsAsciiAlpha(c) == c \in Range(AsciiLower) \cup Range(AsciiUpper)

\* urllib.parse.scheme_chars
SchemeChars == Range(AsciiLower) \cup Range(AsciiUpper) \cup Range(AsciiDigits) \cup {"+", "-", "."}

\* str.lower() of one character
LowerChar(c) ==
    IF c \in Range(AsciiUpper)
    THEN AsciiLower[CHOOSE i \in DOMAIN AsciiUpper : AsciiUpper[i] = c]
    ELSE c

\* str.lower()
LowerStr(s) == [i \in DOMAIN s |-> LowerChar(s[i])]

\* s.find(c) counted from 1: the first position of c in s, 0 when absent
Find(s, c) ==
    IF \E i \in DOMAIN s : s[i] = c
    THEN CHOOSE i \in DOMAIN s : s[i] = c /\ \A j \in 1..(i - 1) : s[j] # c
    ELSE 0

\* a mutant of Rstrip: the last character is cut whatever it is
RstripCutLast(s) == IF s = <<>> THEN s ELSE SubSeq(s, 1, Len(s) - 1)

\* s.rstrip("/")
Rstrip(s) ==
    LET keep == {i \in DOMAIN s : s[i] # "/"}
    IN  IF keep = {} THEN <<>>
        ELSE SubSeq(s, 1, CHOOSE i \in keep : \A j \in keep : j <= i)

\* urllib.parse.urlparse(url): the scheme and the netloc it finds, or the
\* ValueError it raises for a netloc with one bracket
UrlParse(url) ==
    LET colon     == Find(url, ":")
        hasScheme == /\ colon >= 2
                     /\ IsAsciiAlpha(url[1])
                     /\ \A k \in 1..(colon - 1) : url[k] \in SchemeChars
        rest      == IF hasScheme THEN SubSeq(url, colon + 1, Len(url)) ELSE url
        hasNetloc == Len(rest) >= 2 /\ rest[1] = "/" /\ rest[2] = "/"
        delims    == {k \in 3..Len(rest) : rest[k] \in {"/", "?", "#"}}
        stop      == IF delims = {} THEN Len(rest) + 1
                     ELSE CHOOSE k \in delims : \A j \in delims : k <= j
        netloc    == IF hasNetloc THEN SubSeq(rest, 3, stop - 1) ELSE <<>>
    IN  [raises |-> ("[" \in Range(netloc)) # ("]" \in Range(netloc)),
         scheme |-> IF hasScheme THEN LowerStr(SubSeq(url, 1, colon - 1)) ELSE <<>>,
         netloc |-> netloc]

\* a mutant of HasSchemeAndNetloc: `or` for `and`
HasSchemeOrNetloc(p) == p.scheme # <<>> \/ p.netloc # <<>>

\* p.scheme and p.netloc
HasSchemeAndNetloc(p) == p.scheme # <<>> /\ p.netloc # <<>>

\* what sess.get(base, timeout=10) does for one host
ProbeOutcomes ==
    [kind : {"response"}, status : {200, 404, 503}]
        \cup [kind : {"exception"}, status : {0}]

\* a mutant of ProbeOk: only a 200 counts
ProbeOkOnly200(o) == o.kind = "response" /\ o.status = 200

\* the GET returned and r.status_code < 500
ProbeOk(o) == o.kind = "response" /\ o.status < 500

\* _base_of(url) up to its return or its call of _pick_live_base
BaseOf ==
    /\ hpc = "start"
    /\ hcall = "_base_of"
    /\ LET p == UrlParse(hurl)
       IN  IF ~p.raises /\ HasSchemeAndNetloc(p)
           THEN \* return f"{p.scheme}://{p.netloc}"
                /\ hresult' = [kind |-> "return",
                               value |-> p.scheme \o <<":", "/", "/">> \o p.netloc]
                /\ hpc' = "done"
                /\ UNCHANGED hidx
           ELSE \* return _pick_live_base()
                /\ hpc' = "probing"
                /\ hidx' = 1
                /\ UNCHANGED hresult
    /\ UNCHANGED <<world, hcall, hurl, probed>>
    /\ UNCHANGED notHost

\* _pick_live_base() called directly (search_anime)
PickCalled ==
    /\ hpc = "start"
    /\ hcall = "_pick_live_base"
    /\ hpc' = "probing"
    /\ hidx' = 1
    /\ UNCHANGED <<world, hcall, hurl, probed, hresult>>
    /\ UNCHANGED notHost

\* one iteration of `for base in HIANIME_DOMAIN_POOL`
Probe ==
    /\ hpc = "probing"
    /\ hidx <= Len(HIANIME_DOMAIN_POOL)
    /\ probed' = Append(probed, hidx)
    /\ IF ProbeOk(world[hidx])
       THEN \* return base.rstrip("/")
            /\ hresult' = [kind |-> "return", value |-> Rstrip(HIANIME_DOMAIN_POOL[hidx])]
            /\ hpc' = "done"
            /\ UNCHANGED hidx
       ELSE \* a status >= 500 falls through, an exception is caught: next host
            /\ hidx' = hidx + 1
            /\ UNCHANGED <<hpc, hresult>>
    /\ UNCHANGED <<world, hcall, hurl>>
    /\ UNCHANGED notHost

\* return HIANIME_DOMAIN_POOL[0].rstrip("/") after the loop
PickFallback ==
    /\ hpc = "probing"
    /\ hidx > Len(HIANIME_DOMAIN_POOL)
    /\ hresult' = [kind |-> "return", value |-> Rstrip(HIANIME_DOMAIN_POOL[1])]
    /\ hpc' = "done"
    /\ UNCHANGED <<world, hcall, hurl, hidx, probed>>
    /\ UNCHANGED notHost

InitHost ==
    /\ IdleBot
    /\ IdleParse
    /\ IdleList
    /\ IdleFetch
    /\ IdleRender
    /\ IdleEpisodes
    /\ world \in [DOMAIN HIANIME_DOMAIN_POOL -> ProbeOutcomes]
    /\ \/ hcall = "_pick_live_base" /\ hurl = <<>>
       \/ hcall = "_base_of" /\ hurl \in UrlInputs
    /\ hpc = "start"
    /\ hidx = 0
    /\ probed = <<>>
    /\ hresult = NoneObj

NextHost == BaseOf \/ PickCalled \/ Probe \/ PickFallback

SpecHost == InitHost /\ [][NextHost]_vars

(***************************************************************************)
(* Claims about the host resolver.                                         *)
(***************************************************************************)
\* _pick_live_base ran in this call (directly, or on behalf of _base_of)
PickRan == hidx >= 1

\* the pool entries whose GET answers with a status below 500
LiveHosts ==
    {i \in DOMAIN world : world[i].kind = "response" /\ world[i].status < 500}

\* the pool entries whose GET answers 200
Hosts200 ==
    {i \in DOMAIN world : world[i].kind = "response" /\ world[i].status = 200}

First(S) == CHOOSE i \in S : \A j \in S : i <= j

\* C3: whatever each host does (status < 500, status >= 500, exception),
\* _pick_live_base does not stop before its return, returns rather than
\* raises, and returns a member of the pool.
C3_PickReturnsPoolMember ==
    /\ hpc = "probing" => ENABLED (Probe \/ PickFallback)
    /\ (hpc = "done" /\ PickRan)
         => /\ hresult.kind = "return"
            /\ hresult.value \in Range(HIANIME_DOMAIN_POOL)

\* no host qualifies (exceptions and 5xx only): the guess is a pool member
C3_Witness ==
    /\ hpc = "done"
    /\ hcall = "_pick_live_base"
    /\ LiveHosts = {}
    /\ \E i \in DOMAIN world : world[i].kind = "exception"
    /\ \E i \in DOMAIN world : world[i].kind = "response"
    /\ hresult.value \in Range(HIANIME_DOMAIN_POOL)

IsAbsoluteUrl(u) ==
    \E c \in DOMAIN u :
        /\ c >= 2
        /\ u[c] = ":"
        /\ IsAsciiAlpha(u[1])
        /\ \A k \in 1..(c - 1) : u[k] \in SchemeChars
        /\ Len(u) >= c + 3
        /\ u[c + 1] = "/" /\ u[c + 2] = "/"
        /\ u[c + 3] \notin {"/", "?", "#"}
        /\ LET host == {u[k] : k \in {j \in (c + 3)..Len(u) :
                                  \A i \in (c + 3)..j : u[i] \notin {"/", "?", "#"}}}
           IN  ("[" \in host) <=> ("]" \in host)

\* scheme://host of an absolute url, the scheme in its canonical lower case
Authority(u) ==
    LET c    == CHOOSE k \in DOMAIN u : u[k] = ":" /\ \A j \in 1..(k - 1) : u[j] # ":"
        ends == {j \in (c + 3)..Len(u) : \A i \in (c + 3)..j : u[i] \notin {"/", "?", "#"}}
        e    == CHOOSE j \in ends : \A i \in ends : i <= j
    IN  LowerStr(SubSeq(u, 1, c - 1)) \o SubSeq(u, c, e)

\* C9: _base_of of an absolute URL returns its scheme://host and sends no
\* probe; for every other URL _pick_live_base runs.
C9_BaseOfAbsoluteNoProbe ==
    hcall = "_base_of"
        => IF IsAbsoluteUrl(hurl)
           THEN /\ probed = <<>>
                /\ ~PickRan
                /\ hpc = "done" => hresult = [kind |-> "return", value |-> Authority(hurl)]
           ELSE hpc = "done" => PickRan /\ probed # <<>>

\* "https://h.example/x" gives "https://h.example" and nothing is probed
C9_Witness ==
    /\ hcall = "_base_of"
    /\ hpc = "done"
    /\ hurl = <<"h", "t", "t", "p", "s", ":", "/", "/", "h", ".", "e", "x", "a", "m", "p", "l", "e", "/", "x">>
    /\ hresult.value = <<"h", "t", "t", "p", "s", ":", "/", "/", "h", ".", "e", "x", "a", "m", "p", "l", "e">>
    /\ probed = <<>>

\* C10: _pick_live_base returns the first pool domain that answers 200, and
\* the first domain of the list only when no domain does.
C10_FirstHostAnswering200 ==
    (hpc = "done" /\ PickRan)
        => hresult.value = IF Hosts200 = {}
                           THEN HIANIME_DOMAIN_POOL[1]
                           ELSE HIANIME_DOMAIN_POOL[First(Hosts200)]

(***************************************************************************)
(* Rendered page fetcher: _rendered_html running _fetch_rendered_html, and *)
(* _fetch_episodes_html.  Every awaited Playwright call either completes   *)
(* or raises.                                                              *)
(***************************************************************************)
RenderFns == {"_fetch_rendered_html", "_fetch_episodes_html"}

\* what page.content() returns
RenderedPool == {"<html>a</html>", "<html>b</html>"}

\* the selectors _fetch_episodes_html waits for, in order
WaitSelectors == <<"ul.episodes", "div.episode-list", "div#episodes", "div#episode_page">>

\* a mutant of BrowserAfterStop: leaving the block stops nothing
BrowserAfterStopLeftOpen(b) == b

\* leaving `async with async_playwright() as p` stops the Playwright driver,
\* which ends the browsers launched through it
BrowserAfterStop(b) == IF b = "open" THEN "closed" ELSE b

\* asyncio.new_event_loop() is made by _rendered_html only
LoopAfterClose(fn) == IF fn = "_fetch_rendered_html" THEN "closed" ELSE "none"

\* an awaited call raises inside the `async with` block: the block is left
\* (the driver stops), _rendered_html's finally closes the loop, and the
\* exception reaches the caller
Unwind(type, at) ==
    /\ browser' = BrowserAfterStop(browser)
    /\ driver' = "down"
    /\ loopState' = LoopAfterClose(rfn)
    /\ rresult' = [kind |-> "raise", exc |-> [type |-> type, at |-> at]]
    /\ rpc' = "done"
    /\ UNCHANGED <<rfn, rcalls, selIdx, waitLog, rhtml>>

\* a call begins: loop = asyncio.new_event_loop(), the coroutine starts and
\* enters `async with async_playwright() as p`
RenderCall ==
    /\ rpc \in {"idle", "done"}
    /\ rcalls < MaxCalls
    /\ rcalls' = rcalls + 1
    /\ \E fn \in RenderFns :
        /\ rfn' = fn
        /\ loopState' = IF fn = "_fetch_rendered_html" THEN "open" ELSE "none"
    /\ driver' = "up"
    /\ browser' = "none"
    /\ selIdx' = 0
    /\ waitLog' = <<>>
    /\ rhtml' = None
    /\ rresult' = NoneObj
    /\ rpc' = "entered"
    /\ UNCHANGED notRender

\* browser = await p.chromium.launch(args=["--no-sandbox"])
Launch ==
    /\ rpc = "entered"
    /\ \/ /\ browser' = "open"
          /\ rpc' = "launched"
          /\ UNCHANGED <<rfn, rcalls, driver, loopState, selIdx, waitLog, rhtml, rresult>>
       \/ Unwind("Error", "launch")
    /\ UNCHANGED notRender

\* page = await browser.new_page()
NewPage ==
    /\ rpc = "launched"
    /\ \/ /\ rpc' = "page"
          /\ UNCHANGED <<rfn, rcalls, driver, browser, loopState, selIdx, waitLog, rhtml, rresult>>
       \/ Unwind("Error", "new_page")
    /\ UNCHANGED notRender

\* await page.set_extra_http_headers({...})
SetHeaders ==
    /\ rpc = "page"
    /\ \/ /\ rpc' = "headers"
          /\ UNCHANGED <<rfn, rcalls, driver, browser, loopState, selIdx, waitLog, rhtml, rresult>>
       \/ Unwind("Error", "set_extra_http_headers")
    /\ UNCHANGED notRender

\* await page.goto(url, wait_until="domcontentloaded", timeout=45000)
Goto ==
    /\ rpc = "headers"
    /\ \/ /\ rpc' = "navigated"
          /\ selIdx' = 1
          /\ UNCHANGED <<rfn, rcalls, driver, browser, loopState, waitLog, rhtml, rresult>>
       \/ Unwind("TimeoutError", "goto")
    /\ UNCHANGED notRender

\* _fetch_rendered_html: try: await page.wait_for_timeout(800) except: pass
Settle ==
    /\ rpc = "navigated"
    /\ rfn = "_fetch_rendered_html"
    /\ \E outcome \in {"elapsed", "raised"} :
        waitLog' = Append(waitLog, [wait |-> "timeout 800", outcome |-> outcome])
    /\ rpc' = "ready"
    /\ UNCHANGED <<rfn, rcalls, driver, browser, loopState, selIdx, rhtml, rresult>>
    /\ UNCHANGED notRender

\* _fetch_episodes_html: one iteration of `for sel in [...]`:
\* try: await page.wait_for_selector(sel, timeout=15000); break
\* except: continue
WaitSelector ==
    /\ rpc = "navigated"
    /\ rfn = "_fetch_episodes_html"
    /\ selIdx <= Len(WaitSelectors)
    /\ \E outcome \in {"appeared", "raised"} :
        /\ waitLog' = Append(waitLog, [wait |-> WaitSelectors[selIdx], outcome |-> outcome])
        /\ IF outcome = "appeared" \/ selIdx = Len(WaitSelectors)
           THEN rpc' = "ready" /\ UNCHANGED selIdx
           ELSE selIdx' = selIdx + 1 /\ UNCHANGED rpc
    /\ UNCHANGED <<rfn, rcalls, driver, browser, loopState, rhtml, rresult>>
    /\ UNCHANGED notRender

\* html = await page.content()
Content ==
    /\ rpc = "ready"
    /\ \/ /\ rhtml' \in RenderedPool
          /\ rpc' = "read"
          /\ UNCHANGED <<rfn, rcalls, driver, browser, loopState, selIdx, waitLog, rresult>>
       \/ Unwind("Error", "content")
    /\ UNCHANGED notRender

\* await browser.close()
BrowserClose ==
    /\ rpc = "read"
    /\ \/ /\ browser' = "closed"
          /\ rpc' = "closing"
          /\ UNCHANGED <<rfn, rcalls, driver, loopState, selIdx, waitLog, rhtml, rresult>>
       \/ Unwind("Error", "close")
    /\ UNCHANGED notRender

\* return html: the `async with` block is left, then _rendered_html's
\* finally closes the loop
RenderReturn ==
    /\ rpc = "closing"
    /\ browser' = BrowserAfterStop(browser)
    /\ driver' = "down"
    /\ loopState' = LoopAfterClose(rfn)
    /\ rresult' = [kind |-> "return", html |-> rhtml]
    /\ rpc' = "done"
    /\ UNCHANGED <<rfn, rcalls, selIdx, waitLog, rhtml>>
    /\ UNCHANGED notRender

InitRender ==
    /\ IdleBot
    /\ IdleParse
    /\ IdleList
    /\ IdleFetch
    /\ IdleHost
    /\ IdleRender
    /\ IdleEpisodes

NextRender ==
    \/ RenderCall \/ Launch \/ NewPage \/ SetHeaders \/ Goto \/ Settle
    \/ WaitSelector \/ Content \/ BrowserClose \/ RenderReturn

SpecRender == InitRender /\ [][NextRender]_vars

(***************************************************************************)
(* Claims about the rendered page fetcher.                                 *)
(***************************************************************************)
\* C5: once a rendered-page fetch has returned or raised, the browser it
\* launched is not open (and the driver and the event loop are gone).
C5_BrowserTornDownOnEveryExit ==
    rpc \in {"idle", "done"}
        => /\ browser # "open"
           /\ driver = "down"
           /\ loopState # "open"

\* a fetch that launched its browser and then failed at page.goto
C5_Witness ==
    /\ rpc = "done"
    /\ rresult.kind = "raise"
    /\ rresult.exc.at = "goto"
    /\ browser = "closed"

(***************************************************************************)
(* get_episodes_list: the deduplication and the sort of the (number, url)  *)
(* pairs the anchor loop collected.                                        *)
(***************************************************************************)
\* the characters of the model in code point order
CodePointOrder ==
    <<"#", "+", "-", ".", "/">> \o AsciiDigits \o <<":", "?">> \o AsciiUpper
        \o <<"[", "]">> \o AsciiLower

\* the rank of ord(c) among the characters of the model
Ord(c) == CHOOSE i \in DOMAIN CodePointOrder : CodePointOrder[i] = c

RECURSIVE StrLess(_, _)
\* a < b for two str values: by code point, a proper prefix first
StrLess(a, b) ==
    IF b = <<>> THEN FALSE
    ELSE IF a = <<>> THEN TRUE
    ELSE IF Head(a) # Head(b) THEN Ord(Head(a)) < Ord(Head(b))
    ELSE StrLess(Tail(a), Tail(b))

\* the episode numbers the anchor loop produces: the digits a pattern
\* captured, or "?"
NumPool ==
    { <<"1">>, <<"2">>, <<"1", "0">>, <<"0", "1">>, <<"?">>,
      <<"1", "0", "0", "0", "0", "0", "0", "0", "0", "1">> }

\* the episode urls
EpUrlPool == { <<"h", "/", "1">>, <<"h", "/", "1", "0">>, <<"h", "/", "2">> }

\* str.isdigit() on the numbers of the model
IsDigitStr(s) == s # <<>> /\ \A i \in DOMAIN s : s[i] \in Range(AsciiDigits)

\* the value of one decimal digit
DigitValue(c) == (CHOOSE i \in DOMAIN AsciiDigits : AsciiDigits[i] = c) - 1

RECURSIVE IntOf(_)
\* int(s) of a string of digits
IntOf(s) ==
    IF s = <<>> THEN 0
    ELSE 10 * IntOf(SubSeq(s, 1, Len(s) - 1)) + DigitValue(s[Len(s)])

\* 10**9, the sort key of an entry whose number is no digit string
UnknownKey == 1000000000

\* int(x[0]) if x[0].isdigit() else 10**9
NumKey(num) == IF IsDigitStr(num) THEN IntOf(num) ELSE UnknownKey

\* a mutant of KeyLess: the numbers are compared as strings
KeyLessAsStrings(x, y) ==
    \/ StrLess(x[1], y[1])
    \/ x[1] = y[1] /\ StrLess(x[2], y[2])

\* key(x) < key(y) for key = lambda x: (int(x[0]) if ... else 10**9, x[1])
KeyLess(x, y) ==
    \/ NumKey(x[1]) < NumKey(y[1])
    \/ NumKey(x[1]) = NumKey(y[1]) /\ StrLess(x[2], y[2])

RECURSIVE DictKeys(_)
\* seen = {}; for num, url in episodes: seen[(num, url)] = True; seen.keys():
\* the distinct pairs in the order of their first insertion
DictKeys(eps) ==
    IF eps = <<>> THEN <<>>
    ELSE LET before == DictKeys(SubSeq(eps, 1, Len(eps) - 1))
             x      == eps[Len(eps)]
         IN  IF x \in Range(before) THEN before ELSE Append(before, x)

\* x put into the sorted list s after every element not greater than it
InsertSorted(s, x) ==
    LET after == {i \in DOMAIN s : KeyLess(x, s[i])}
        at    == IF after = {} THEN Len(s) + 1
                 ELSE CHOOSE i \in after : \A j \in after : i <= j
    IN  SubSeq(s, 1, at - 1) \o <<x>> \o SubSeq(s, at, Len(s))

RECURSIVE Sorted(_)
\* sorted(s, key=...): ascending by key, equal keys in their given order
Sorted(s) ==
    IF s = <<>> THEN <<>>
    ELSE InsertSorted(Sorted(SubSeq(s, 1, Len(s) - 1)), s[Len(s)])

\* lines 151-156 of get_episodes_list
DedupSort ==
    /\ epc = "collected"
    /\ epResult' = Sorted(DictKeys(episodes))
    /\ epc' = "done"
    /\ UNCHANGED episodes
    /\ UNCHANGED notEpisodes

InitEpisodes ==
    /\ IdleBot
    /\ IdleParse
    /\ IdleList
    /\ IdleFetch
    /\ IdleHost
    /\ IdleRender
    /\ episodes \in SeqsUpTo(NumPool \X EpUrlPool, MaxAnchors)
    /\ epc = "collected"
    /\ epResult = <<>>

NextEpisodes == DedupSort

SpecEpisodes == InitEpisodes /\ [][NextEpisodes]_vars

(***************************************************************************)
(* Claims about the episode list.                                          *)
(***************************************************************************)
\* C6: the returned list has no two equal pairs, holds exactly the distinct
\* pairs collected, and its numbered entries ascend by integer value, equal
\* values by lexical url order.
C6_DedupedAndSortedNumerically ==
    epc = "done"
        => /\ \A i, j \in DOMAIN epResult : epResult[i] = epResult[j] => i = j
           /\ Range(epResult) = Range(episodes)
           /\ \A i, j \in DOMAIN epResult :
                (i < j /\ IsDigitStr(epResult[i][1]) /\ IsDigitStr(epResult[j][1]))
                    => \/ IntOf(epResult[i][1]) < IntOf(epResult[j][1])
                       \/ /\ IntOf(epResult[i][1]) = IntOf(epResult[j][1])
                          /\ ~StrLess(epResult[j][2], epResult[i][2])

\* [("10", h/2), ("2", h/1), ("10", h/2)] in collection order comes out as
\* [("2", h/1), ("10", h/2)]
C6_Witness ==
    /\ epc = "done"
    /\ Len(episodes) = 3
    /\ episodes[1] = episodes[3]
    /\ epResult = << << <<"2">>, <<"h", "/", "1">> >>,
                     << <<"1", "0">>, <<"h", "/", "2">> >> >>

\* C7: every entry whose number is the unknown sentinel comes after every
\* entry with a parseable number, whatever the number's magnitude.
C7_UnknownAfterEveryNumber ==
    epc = "done"
        => \A i, j \in DOMAIN epResult :
             (~IsDigitStr(epResult[i][1]) /\ IsDigitStr(epResult[j][1])) => j < i

(***************************************************************************)
(* get_episodes_list: choosing the anchors and deriving the numbers.       *)
(* A parsed page is the sequence of its containers and anchors in document *)
(* order; a container holds the anchors that follow it up to the next      *)
(* container, and the anchors before the first container are in none.      *)
(***************************************************************************)
\* the container selectors, in the order of the for loop
ContainerSelectors == <<"ul.episodes", "div.episode-list", "div#episodes", "div#episode_page">>

\* the elements the selectors select
ContainerPool == [tag : {"container"}, sel : Range(ContainerSelectors)]

\* the <a> elements of the pages: whether the href attribute is there, its
\* value, and the text get_text(" ", strip=True) gives
AnchorPool ==
    {
      \* text "Episode 12", href "/watch/x?ep=5"
      [tag |-> "a", hasHref |-> TRUE, text |-> <<"E", "p", "i", "s", "o", "d", "e", " ", "1", "2">>,
       href |-> <<"/", "w", "a", "t", "c", "h", "/", "x", "?", "e", "p", "=", "5">>],
      \* text "EPISODE7", href "/episode-3"
      [tag |-> "a", hasHref |-> TRUE, text |-> <<"E", "P", "I", "S", "O", "D", "E", "7">>,
       href |-> <<"/", "e", "p", "i", "s", "o", "d", "e", "-", "3">>],
      \* text "Episode", href "/Episode_4"
      [tag |-> "a", hasHref |-> TRUE, text |-> <<"E", "p", "i", "s", "o", "d", "e">>,
       href |-> <<"/", "E", "p", "i", "s", "o", "d", "e", "_", "4">>],
      \* text "Watch", href "/episode/x"
      [tag |-> "a", hasHref |-> TRUE, text |-> <<"W", "a", "t", "c", "h">>,
       href |-> <<"/", "e", "p", "i", "s", "o", "d", "e", "/", "x">>],
      \* text "Episode 1", href " "
      [tag |-> "a", hasHref |-> TRUE, text |-> <<"E", "p", "i", "s", "o", "d", "e", " ", "1">>,
       href |-> <<" ">>],
      \* text "Episode 2", href ""
      [tag |-> "a", hasHref |-> TRUE, text |-> <<"E", "p", "i", "s", "o", "d", "e", " ", "2">>,
       href |-> <<>>],
      \* text "Episode 3", href "/episode-8"
      [tag |-> "a", hasHref |-> FALSE, text |-> <<"E", "p", "i", "s", "o", "d", "e", " ", "3">>,
       href |-> <<"/", "e", "p", "i", "s", "o", "d", "e", "-", "8">>],
      \* text "Episode x episode\t9", href " /e "
      [tag |-> "a", hasHref |-> TRUE, text |-> <<"E", "p", "i", "s", "o", "d", "e", " ", "x", " ", "e", "p", "i", "s", "o", "d", "e", "\t", "9">>,
       href |-> <<" ", "/", "e", " ">>] }

NodePool == ContainerPool \cup AnchorPool

\* the base _base_of returned
ParseBases == { <<"h", "t", "t", "p", "s", ":", "/", "/", "h", ".", "e", "x", "a", "m", "p", "l", "e">> }   \* "https://h.example"

\* the characters \s matches and str.strip() removes
Whitespace == {" ", "\t", "\n"}

\* the characters [0-9] and \d match
Digits == Range(AsciiDigits)

\* "episode"
EpisodeWord == <<"e", "p", "i", "s", "o", "d", "e">>

\* the characters of [-_/ ]
HrefSeparators == {"-", "_", "/", " "}

Max(S) == CHOOSE i \in S : \A j \in S : j <= i

\* str.strip()
Strip(s) ==
    LET keep == {i \in DOMAIN s : s[i] \notin Whitespace}
    IN  IF keep = {} THEN <<>> ELSE SubSeq(s, Min(keep), Max(keep))

\* w in s
Contains(s, w) == \E p \in 1..(Len(s) - Len(w) + 1) : SubSeq(s, p, p + Len(w) - 1) = w

RECURSIVE RunEnd(_, _, _)
\* where the run of characters of `set` beginning at position i of s ends
\* (i - 1 when s[i] is not one)
RunEnd(s, i, set) ==
    IF i <= Len(s) /\ s[i] \in set THEN RunEnd(s, i + 1, set) ELSE i - 1

\* "episode" in any case at position p of s
WordAt(s, p) == p + 6 <= Len(s) /\ LowerStr(SubSeq(s, p, p + 6)) = EpisodeWord

\* r"Episode\s*([0-9]+)" with re.I matched at position p of text
TextMatchAt(text, p) ==
    IF WordAt(text, p)
    THEN LET d == RunEnd(text, p + 7, Whitespace) + 1
             e == RunEnd(text, d, Digits)
         IN  IF e >= d THEN [kind |-> "match", group |-> SubSeq(text, d, e)] ELSE NoneObj
    ELSE NoneObj

\* r"episode[-_/ ]?(\d+)" with re.I matched at position p of href
HrefMatchAt(href, p) ==
    IF WordAt(href, p)
    THEN LET sep == p + 7 <= Len(href) /\ href[p + 7] \in HrefSeparators
             d   == IF sep THEN p + 8 ELSE p + 7
             e   == RunEnd(href, d, Digits)
         IN  IF e >= d THEN [kind |-> "match", group |-> SubSeq(href, d, e)] ELSE NoneObj
    ELSE NoneObj

RECURSIVE EpSearch(_, _, _)
\* re.search(pattern, s): the pattern tried at each position from p on
EpSearch(pattern, s, p) ==
    IF p > Len(s) THEN NoneObj
    ELSE LET m == IF pattern = "text" THEN TextMatchAt(s, p) ELSE HrefMatchAt(s, p)
         IN  IF m # NoneObj THEN m ELSE EpSearch(pattern, s, p + 1)

\* a mutant of EpNum: the href is searched first
EpNumHrefFirst(text, href) ==
    LET m2 == EpSearch("href", href, 1)
    IN  IF m2 # NoneObj THEN m2.group
        ELSE LET m == EpSearch("text", text, 1)
             IN  IF m # NoneObj THEN m.group ELSE <<"?">>

\* ep_num: m.group(1) if m, else m2.group(1) if m2, else "?"
EpNum(text, href) ==
    LET m == EpSearch("text", text, 1)
    IN  IF m # NoneObj THEN m.group
        ELSE LET m2 == EpSearch("href", href, 1)
             IN  IF m2 # NoneObj THEN m2.group ELSE <<"?">>

\* _abs(base, href) = urljoin(base + "/", href) for a base scheme://host
Abs(base, href) ==
    LET p == UrlParse(href)
    IN  IF HasSchemeAndNetloc(p) THEN href
        ELSE IF Len(href) >= 2 /\ SubSeq(href, 1, 2) = <<"/", "/">>
             THEN UrlParse(base).scheme \o <<":">> \o href
        ELSE IF Head(href) = "/" THEN base \o href
        ELSE base \o <<"/">> \o href

\* a.get("href", "")
GetHref(a) == IF a.hasHref THEN a.href ELSE <<>>

\* one iteration of `for a in candidates`: the pair appended, if any
EpisodeOf(base, a) ==
    LET href == Strip(GetHref(a))
    IN  IF href = <<>> THEN <<>>
        ELSE << <<EpNum(a.text, href), Abs(base, href)>> >>

RECURSIVE CollectAll(_, _)
\* the whole for loop
CollectAll(base, cands) ==
    IF cands = <<>> THEN <<>>
    ELSE EpisodeOf(base, Head(cands)) \o CollectAll(base, Tail(cands))

\* soup.select_one(sel): the position of the first element sel selects, 0
\* for None
SelectOne(page, sel) ==
    LET at == {i \in DOMAIN page : page[i].tag = "container" /\ page[i].sel = sel}
    IN  IF at = {} THEN 0 ELSE Min(at)

\* the anchors inside the container at position k
Inside(page, k) ==
    LET next == {i \in (k + 1)..Len(page) : page[i].tag = "container"}
    IN  SubSeq(page, k + 1, IF next = {} THEN Len(page) ELSE Min(next) - 1)

\* container.select("a[href]")
SelectAnchors(page, k) == SelectSeq(Inside(page, k), LAMBDA a : a.hasHref)

\* soup.select("a[href*='episode']")
SelectEpisodeAnchors(page) ==
    SelectSeq(page, LAMBDA n : n.tag = "a" /\ n.hasHref /\ Contains(n.href, EpisodeWord))

\* a mutant of Cascade: the first container found ends the loop
CascadeStopAtContainer(page, i) ==
    LET found == {j \in i..Len(ContainerSelectors) : SelectOne(page, ContainerSelectors[j]) # 0}
    IN  IF found = {} THEN <<>>
        ELSE SelectAnchors(page, SelectOne(page, ContainerSelectors[Min(found)]))

RECURSIVE Cascade(_, _)
\* the for loop over the container selectors from the i-th on: what
\* `candidates` holds when the loop is left
Cascade(page, i) ==
    IF i > Len(ContainerSelectors) THEN <<>>
    ELSE LET container == SelectOne(page, ContainerSelectors[i])
         IN  IF container # 0 /\ SelectAnchors(page, container) # <<>>
             THEN SelectAnchors(page, container)
             ELSE Cascade(page, i + 1)

\* lines 124-133: the cascade, then the fallback `if not candidates`
SelectCandidates(page) ==
    LET c == Cascade(page, 1)
    IN  IF c = <<>> THEN SelectEpisodeAnchors(page) ELSE c

\* lines 124-134: candidates chosen, episodes = []
Select ==
    /\ epc = "soup"
    /\ candidates' = SelectCandidates(soup)
    /\ aidx' = 1
    /\ episodes' = <<>>
    /\ epc' = IF SelectCandidates(soup) = <<>> THEN "collected" ELSE "loop"
    /\ UNCHANGED <<soup, pbase, epResult>>
    /\ UNCHANGED notParse

\* one iteration of `for a in candidates`
AnchorStep ==
    /\ epc = "loop"
    /\ aidx <= Len(candidates)
    /\ episodes' = episodes \o EpisodeOf(pbase, candidates[aidx])
    /\ aidx' = aidx + 1
    /\ epc' = IF aidx = Len(candidates) THEN "collected" ELSE "loop"
    /\ UNCHANGED <<soup, pbase, candidates, epResult>>
    /\ UNCHANGED notParse

InitParse ==
    /\ IdleBot
    /\ IdleFetch
    /\ IdleHost
    /\ IdleRender
    /\ IdleList
    /\ soup \in SeqsUpTo(NodePool, MaxNodes)
    /\ pbase \in ParseBases
    /\ candidates = <<>>
    /\ aidx = 0
    /\ episodes = <<>>
    /\ epc = "soup"
    /\ epResult = <<>>

NextParse == Select \/ AnchorStep \/ DedupSort

SpecParse == InitParse /\ [][NextParse]_vars

(***************************************************************************)
(* Claims about the anchors and the numbers.                               *)
(***************************************************************************)
\* the elements of page at the positions P, in document order
Pick(page, P) ==
    [n \in 1..Cardinality(P) |-> page[CHOOSE j \in P : Cardinality({m \in P : m < j}) = n - 1]]

\* the positions of the anchors with an href that the container at k holds
HeldAt(page, k) ==
    {j \in (k + 1)..Len(page) :
        /\ \A m \in (k + 1)..j : page[m].tag = "a"
        /\ page[j].hasHref}

\* the selectors whose container is there and holds an anchor with an href
Yielding(page) ==
    {i \in DOMAIN ContainerSelectors :
        \E k \in DOMAIN page :
            /\ page[k].tag = "container" /\ page[k].sel = ContainerSelectors[i]
            /\ \A m \in 1..(k - 1) : ~(page[m].tag = "container" /\ page[m].sel = page[k].sel)
            /\ HeldAt(page, k) # {}}

DigitsAfterWord(s, seps, gaps) ==
    {p \in DOMAIN s :
        /\ p + 6 <= Len(s)
        /\ \A i \in 0..6 : LowerChar(s[p + i]) = EpisodeWord[i + 1]
        /\ \E g \in gaps :
            /\ p + 7 + g <= Len(s)
            /\ \A j \in (p + 7)..(p + 6 + g) : s[j] \in seps
            /\ s[p + 7 + g] \in Digits}

\* the whole run of digits that follows the leftmost of those positions
LeftmostDigits(s, hits) ==
    LET p == Min(hits)
        d == Min({j \in (p + 7)..Len(s) : s[j] \in Digits})
        e == Max({j \in d..Len(s) : \A i \in d..j : s[i] \in Digits})
    IN  SubSeq(s, d, e)

\* C17: every candidate anchor whose href is not blank gives one entry, in
\* order, and the others give none; the entry's number is the digits after
\* "Episode" in the text when the text has them, whatever the href holds;
\* else the digits next to "episode" in the href; else "?".
C17_NumberFromTextThenHrefThenUnknown ==
    epc \in {"collected", "done"}
        => LET kept == {k \in DOMAIN candidates :
                           /\ candidates[k].hasHref
                           /\ \E i \in DOMAIN candidates[k].href :
                                 candidates[k].href[i] \notin Whitespace}
           IN  /\ Len(episodes) = Cardinality(kept)
               /\ \A k \in kept :
                    LET a  == candidates[k]
                        n  == 1 + Cardinality({m \in kept : m < k})
                        th == DigitsAfterWord(a.text, Whitespace, 0..Len(a.text))
                        hh == DigitsAfterWord(a.href, HrefSeparators, {0, 1})
                    IN  episodes[n][1] =
                            IF th # {} THEN LeftmostDigits(a.text, th)
                            ELSE IF hh # {} THEN LeftmostDigits(a.href, hh)
                            ELSE <<"?">>

\* "EPISODE7" linking to "/episode-3" is number 7, and the anchor with a
\* blank href after it gives no entry
C17_Witness ==
    /\ epc = "done"
    /\ Len(candidates) = 2
    /\ candidates[1].text = <<"E", "P", "I", "S", "O", "D", "E", "7">>
    /\ candidates[1].href = <<"/", "e", "p", "i", "s", "o", "d", "e", "-", "3">>
    /\ candidates[2].href = <<" ">>
    /\ Len(episodes) = 1
    /\ episodes[1][1] = <<"7">>

(***************************************************************************)
(* get_episodes_list as a whole: base = _base_of(anime_url), then          *)
(* html = _rendered_html(anime_url), then the parse.                       *)
(***************************************************************************)
\* what a pool host does while the list is fetched
ListProbeOutcomes == {o \in ProbeOutcomes : o.kind = "response" /\ o.status \in {200, 503}}

\* BeautifulSoup(html, "lxml") of the two pages of RenderedPool: a
\* ul.episodes list of two episodes, and a page with one loose episode link
BeautifulSoup(html) ==
    IF html = "<html>a</html>"
    THEN << [tag |-> "container", sel |-> "ul.episodes"],
            \* <a href="/watch/x?ep=5">Episode 12</a>
            [tag |-> "a", hasHref |-> TRUE, text |-> <<"E", "p", "i", "s", "o", "d", "e", " ", "1", "2">>,
            href |-> <<"/", "w", "a", "t", "c", "h", "/", "x", "?", "e", "p", "=", "5">>],
            \* <a href="/episode-3">EPISODE7</a>
            [tag |-> "a", hasHref |-> TRUE, text |-> <<"E", "P", "I", "S", "O", "D", "E", "7">>,
            href |-> <<"/", "e", "p", "i", "s", "o", "d", "e", "-", "3">>] >>
    ELSE << \* <a href="/episode/x">Watch</a>
            [tag |-> "a", hasHref |-> TRUE, text |-> <<"W", "a", "t", "c", "h">>,
            href |-> <<"/", "e", "p", "i", "s", "o", "d", "e", "/", "x">>] >>

\* html = _rendered_html(anime_url): _rendered_html makes its event loop and
\* runs _fetch_rendered_html(url), which enters `async with async_playwright()`
ListRender ==
    /\ lpc = "base"
    /\ hpc = "done"
    /\ pbase' = hresult.value
    /\ rurl' = lurl
    /\ rfn' = "_fetch_rendered_html"
    /\ loopState' = "open"
    /\ rcalls' = rcalls + 1
    /\ driver' = "up"
    /\ browser' = "none"
    /\ selIdx' = 0
    /\ waitLog' = <<>>
    /\ rhtml' = None
    /\ rresult' = NoneObj
    /\ rpc' = "entered"
    /\ lpc' = "render"
    /\ UNCHANGED <<lurl, lresult, soup, candidates, aidx>>
    /\ UNCHANGED <<fetchVars, hostVars, episodeVars, botVars>>

\* _rendered_html has ended: its exception leaves get_episodes_list, or its
\* html is parsed and lines 122-156 run to the return
ListParse ==
    /\ lpc = "render"
    /\ rpc = "done"
    /\ IF rresult.kind = "raise"
       THEN /\ lresult' = rresult
            /\ UNCHANGED <<soup, candidates, aidx, episodeVars>>
       ELSE LET page  == BeautifulSoup(rresult.html)
                cands == SelectCandidates(page)
                eps   == CollectAll(pbase, cands)
            IN  /\ soup' = page
                /\ candidates' = cands
                /\ aidx' = Len(cands) + 1
                /\ episodes' = eps
                /\ epResult' = Sorted(DictKeys(eps))
                /\ epc' = "done"
                /\ lresult' = [kind |-> "return", value |-> Sorted(DictKeys(eps))]
    /\ lpc' = "done"
    /\ UNCHANGED <<lurl, rurl, pbase>>
    /\ UNCHANGED <<fetchVars, hostVars, renderVars, botVars>>

\* get_episodes_list(anime_url) has been called and calls _base_of(anime_url)
InitList ==
    /\ IdleBot
    /\ IdleFetch
    /\ IdleRender
    /\ IdleEpisodes
    /\ IdleParse
    /\ world \in [DOMAIN HIANIME_DOMAIN_POOL -> ListProbeOutcomes]
    /\ lurl \in UrlInputs
    /\ hcall = "_base_of"
    /\ hurl = lurl
    /\ hpc = "start"
    /\ hidx = 0
    /\ probed = <<>>
    /\ hresult = NoneObj
    /\ lpc = "base"
    /\ rurl = <<>>
    /\ lresult = NoneObj

NextList ==
    \/ BaseOf \/ Probe \/ PickFallback
    \/ ListRender
    \/ Launch \/ NewPage \/ SetHeaders \/ Goto \/ Settle \/ Content \/ BrowserClose \/ RenderReturn
    \/ ListParse

SpecList == InitList /\ [][NextList]_vars

(***************************************************************************)
(* Claims about get_episodes_list as a whole.                              *)
(***************************************************************************)
\* C14: when get_episodes_list reads the page content, a wait for one of the
\* episode-container selectors has ended with the selector there, or the
\* waits for all four selectors, in their order, have timed out.
C14_ContentReadAfterSelectorWaits ==
    (lpc \in {"render", "done"} /\ rhtml # None)
        => LET waits == SelectSeq(waitLog, LAMBDA w : w.wait \in Range(WaitSelectors))
           IN  /\ waits # <<>>
               /\ \A k \in DOMAIN waits : waits[k].wait = WaitSelectors[k]
               /\ \/ waits[Len(waits)].outcome = "appeared"
                  \/ Len(waits) = Len(WaitSelectors)

\* C15: the url the rendered-page fetch is given is absolute; for a relative
\* anime_url it is that url resolved against the base _base_of returned.
C15_RenderedUrlIsAbsolute ==
    lpc \in {"render", "done"}
        => /\ IsAbsoluteUrl(rurl)
           /\ IsAbsoluteUrl(lurl) \/ rurl = Abs(pbase, lurl)

(***************************************************************************)
(* bot.py: episode_callback.  The Flask server runs every webhook POST in  *)
(* a thread of its own and dispatcher.process_update runs the handler in   *)
(* that thread, so handlers interleave at their calls.  Every Telegram     *)
(* call either completes or raises.                                        *)
(***************************************************************************)
\* lines 104-113: query.answer(), the split of query.data, the first
\* edit_message_text
CbStart(h) ==
    /\ bpc[h] = "idle"
    /\ \/ \E n \in CallbackNums :
            /\ bnum' = [bnum EXCEPT ![h] = n]
            /\ bpc' = [bpc EXCEPT ![h] = "extract"]
       \/ \* ValueError from the split: "Invalid episode selection.", return
          /\ bpc' = [bpc EXCEPT ![h] = "returned"]
          /\ UNCHANGED bnum
       \/ \* query.answer() or edit_message_text raised
          /\ bpc' = [bpc EXCEPT ![h] = "raised"]
          /\ UNCHANGED bnum
    /\ UNCHANGED <<bsub, bfile, bopened, cache>>
    /\ UNCHANGED <<fetchVars, hostVars, renderVars, episodeVars, parseVars, listVars>>

\* lines 115-134: extract_episode_stream_and_subtitle and the three early
\* returns (it raised, no hls_link, no subtitle_url)
CbExtract(h) ==
    /\ bpc[h] = "extract"
    /\ \/ \E u \in CallbackSubs :
            /\ bsub' = [bsub EXCEPT ![h] = u]
            /\ bpc' = [bpc EXCEPT ![h] = "download"]
       \/ /\ bpc' \in {[bpc EXCEPT ![h] = "returned"], [bpc EXCEPT ![h] = "raised"]}
          /\ UNCHANGED bsub
    /\ UNCHANGED <<bnum, bfile, bopened, cache>>
    /\ UNCHANGED <<fetchVars, hostVars, renderVars, episodeVars, parseVars, listVars>>

\* lines 137-143: local_vtt = download_and_rename_subtitle(...), or its
\* exception caught, the message edited and return
CbDownload(h) ==
    /\ bpc[h] = "download"
    /\ \/ LET path == SubtitlePath(bsub[h], bnum[h], "subtitles_cache")
          IN  /\ cache' = [cache EXCEPT ![path] = h]
              /\ bfile' = [bfile EXCEPT ![h] = path]
              /\ bpc' = [bpc EXCEPT ![h] = "edit"]
       \/ /\ bpc' \in {[bpc EXCEPT ![h] = "returned"], [bpc EXCEPT ![h] = "raised"]}
          /\ UNCHANGED <<bfile, cache>>
    /\ UNCHANGED <<bnum, bsub, bopened>>
    /\ UNCHANGED <<fetchVars, hostVars, renderVars, episodeVars, parseVars, listVars>>

\* lines 145-146: query.edit_message_text(text, parse_mode=ParseMode.HTML)
CbEdit(h) ==
    /\ bpc[h] = "edit"
    /\ bpc' \in {[bpc EXCEPT ![h] = "open"], [bpc EXCEPT ![h] = "raised"]}
    /\ UNCHANGED <<bnum, bsub, bfile, bopened, cache>>
    /\ UNCHANGED <<fetchVars, hostVars, renderVars, episodeVars, parseVars, listVars>>

\* line 148: open(local_vtt, "rb"); InputFile(f) reads the file
CbOpen(h) ==
    /\ bpc[h] = "open"
    /\ bopened' = [bopened EXCEPT ![h] = cache[bfile[h]]]
    /\ bpc' = [bpc EXCEPT ![h] = IF cache[bfile[h]] = 0 THEN "raised" ELSE "send"]
    /\ UNCHANGED <<bnum, bsub, bfile, cache>>
    /\ UNCHANGED <<fetchVars, hostVars, renderVars, episodeVars, parseVars, listVars>>

\* lines 149-152: query.message.reply_document(...), then the `with` closes f
CbSend(h) ==
    /\ bpc[h] = "send"
    /\ bpc' \in {[bpc EXCEPT ![h] = "remove"], [bpc EXCEPT ![h] = "raised"]}
    /\ UNCHANGED <<bnum, bsub, bfile, bopened, cache>>
    /\ UNCHANGED <<fetchVars, hostVars, renderVars, episodeVars, parseVars, listVars>>

\* lines 154-157: os.remove(local_vtt), OSError passed over
CbRemove(h) ==
    /\ bpc[h] = "remove"
    /\ cache' = [cache EXCEPT ![bfile[h]] = 0]
    /\ bpc' = [bpc EXCEPT ![h] = "returned"]
    /\ UNCHANGED <<bnum, bsub, bfile, bopened>>
    /\ UNCHANGED <<fetchVars, hostVars, renderVars, episodeVars, parseVars, listVars>>

InitBot ==
    /\ IdleFetch
    /\ IdleHost
    /\ IdleRender
    /\ IdleEpisodes
    /\ IdleParse
    /\ IdleList
    /\ IdleBot

NextBot ==
    \E h \in Handlers :
        \/ CbStart(h) \/ CbExtract(h) \/ CbDownload(h) \/ CbEdit(h)
        \/ CbOpen(h) \/ CbSend(h) \/ CbRemove(h)

SpecBot == InitBot /\ [][NextBot]_vars

(***************************************************************************)
(* Claims about episode_callback.                                          *)
(***************************************************************************)
\* C18: once a handler whose download succeeded has finished, by return or
\* by exception, the file it materialized is no longer in subtitles_cache.
C18_MaterializedFileDeletedOnEveryExit ==
    \A h \in Handlers :
        (bpc[h] \in {"returned", "raised"} /\ bfile[h] # NoneObj)
            => cache[bfile[h]] # h

\* C19: the file a handler opens is there and holds what that handler
\* downloaded.
C19_HandlerOpensItsOwnDownload ==
    \A h \in Handlers : bopened[h] \in {-1, h}

=============================================================================
